---------------------------- MODULE Spec2Model ----------------------------
(***************************************************************************)
(* A model of the bf-rs pipeline: Lexer -> Parser -> Optimizer            *)
(* (ZeroLoopOptimizer, SpecExecOptimizer) -> Interpreter / PythonCodeGen.  *)
(*                                                                         *)
(* Source text is a sequence of one-character strings.  A Rust String is  *)
(* a sequence of code points (0..255 is all char::from(u8) can produce);  *)
(* String::bytes() is its UTF-8 encoding.  An Expr is a record            *)
(* [tag, num, val, body, str]; fields a variant does not have are 0 / <<>>.*)
(***************************************************************************)
EXTENDS Integers, Sequences, FiniteSets, TLC

VARIABLES
    build,      \* "debug" (overflow checks panic) or "release" (usize wraps)
    phase,      \* position of the pipeline
    data,       \* Lexer.data: the source text
    tokens,     \* Lexer.tokens
    parsed,     \* the IR returned by Parser::parse
    expr,       \* Optimizer.expr
    old_expr,   \* Optimizer::optimize local old_expr
    cycle,      \* Optimizer::optimize: cycles completed (0..limit)
    before,     \* the IR the pass that ran last was given
    sim,        \* the last SpecExecOptimizer prefix simulation: [vm, read_pos]
    input,      \* the input stream given to both runs
    vm_parsed,  \* interpreter after running the parsed IR
    vm_opt,     \* interpreter after running the optimized IR
    unit_vm,    \* single-node runs: the interpreter before the run
    unit_expr,  \* single-node runs: the node
    unit_res,   \* single-node runs: the interpreter after running unit_expr
    unit_rew,   \* single-node runs: after running ZeroLoopOptimizer's rewrite
    gen_ir,     \* the IR given to PythonCodeGen::gen
    codegen,    \* the PythonCodeGen: [output, tab_index, newline]
    vm_gen,     \* interpreter after running gen_ir
    py,         \* the target runtime after executing codegen.output
    instructions, \* v1: the Vec<Instruction> collected from the source text
    v1          \* v1: the Interpreter after exec, with its exec locals

srcvars == <<build, data>>
optvars == <<expr, old_expr, cycle, before, sim>>
runvars == <<input, vm_parsed, vm_opt>>
unitvars == <<unit_vm, unit_expr, unit_res, unit_rew>>
genvars == <<gen_ir, codegen, vm_gen, py>>
v1vars == <<instructions, v1>>

vars == <<build, phase, data, tokens, parsed, expr, old_expr, cycle, before, sim,
          input, vm_parsed, vm_opt, unit_vm, unit_expr, unit_res, unit_rew,
          gen_ir, codegen, vm_gen, py, instructions, v1>>

---------------------------------------------------------------------------
(* Bounds of the model *)

MaxSrcLen == 4
MaxInputLen == 1
MaxTape == 6
MaxIter == 1024
MaxCount == 257
MaxUnitPtr == 1
MaxSteps == 4096

(* Program constants *)

ByteMod == 256
limit == 3

SrcChars == {"+", "-", "<", ">", ".", ",", "[", "]", "x"}
InputBytes == {1, 200}

RECURSIVE SeqsUpTo(_, _)
SeqsUpTo(S, n) ==
    IF n = 0 THEN {<<>>}
    ELSE LET shorter == SeqsUpTo(S, n - 1)
         IN  shorter \cup {Append(s, c) : s \in {t \in shorter : Len(t) = n - 1}, c \in S}

Sources == SeqsUpTo(SrcChars, MaxSrcLen)

\* Longer programs: the scenarios of the documentation and idioms the passes
\* are written for.
Corpus ==
    { <<"+", "+", "+", ">", ",", "<", ".">>,
      <<"+", "+", "+", ".", ",", "+", ".">>,
      <<".", ",", "[", "-", "]", ",", ".">>,
      <<"+", "[", ",", ".", "]", "[", "-", "]">>,
      <<"+", "[", ",", ".", "]">>,
      <<".", ",", "[", ".", "]">>,
      <<"[", "[", "-", "]", "]">>,
      <<"[", "-", "]", "[", "[", "-", "]", "]">>,
      <<"+", ">", "+", "+", ".", ">", ",", ".">>,
      <<"+", "[", ">", "[", "-", "]", "<", "-", "]", ".">>,
      <<"+", "+", "+", "+", "+", "+", "+", "+", "+", "+", ".">>,
      <<"+", "+", "+", "+", "+", "+", "+", "+", "[", ">", "+", "+", "+", "+", "+", "+", "+", "+",
        "<", "-", "]", ">", "+", ".">> }
Inputs == SeqsUpTo(InputBytes, MaxInputLen)

---------------------------------------------------------------------------
(* lexer.rs *)

TokenData(kind, num, str) == [kind |-> kind, num |-> num, str |-> str]

is_bf_char(c) == c \in {"+", "-", "<", ">", ".", ",", "[", "]"}

\* A count_char that takes one character and does not look at the next.
count_char_one(d, i, c) == 1

\* count_char: the number of consecutive c from position i (1-based) on.
RECURSIVE count_char(_, _, _)
count_char(d, i, c) ==
    IF i <= Len(d) /\ d[i] = c THEN 1 + count_char(d, i + 1, c) ELSE 0

\* The Other arm's scan: returns <<position after the run, end>>, where end
\* is the index of the last character peeked (0-based byte offset).
RECURSIVE other_scan(_, _, _)
other_scan(d, i, end) ==
    IF i > Len(d) THEN <<i, end>>
    ELSE IF is_bf_char(d[i]) THEN <<i, i - 1>>
    ELSE other_scan(d, i + 1, i - 1)

\* A lexer that takes `>` for ShiftLeft and `<` for ShiftRight.
CountKind_swapped(c) ==
    CASE c = "+" -> "Increment"
      [] c = "-" -> "Decrement"
      [] c = ">" -> "ShiftLeft"
      [] c = "<" -> "ShiftRight"

CountKind(c) ==
    CASE c = "+" -> "Increment"
      [] c = "-" -> "Decrement"
      [] c = ">" -> "ShiftRight"
      [] c = "<" -> "ShiftLeft"

SingleKind(c) ==
    CASE c = "." -> "Print"
      [] c = "," -> "Read"
      [] c = "]" -> "EndLoop"
      [] c = "[" -> "StartLoop"

\* Lexer::lex from position i (1-based) with the tokens pushed so far.
RECURSIVE lex_from(_, _, _)
lex_from(d, i, toks) ==
    IF i > Len(d) THEN toks
    ELSE LET c == d[i] IN
         IF c \in {"+", "-", ">", "<"}
         THEN LET n == count_char(d, i, c)
              IN  lex_from(d, i + n, Append(toks, TokenData(CountKind(c), n, <<>>)))
         ELSE IF c \in {".", ",", "]", "["}
         THEN lex_from(d, i + 1, Append(toks, TokenData(SingleKind(c), 0, <<>>)))
         ELSE LET r == other_scan(d, i, 0)
                  start == i - 1
                  s == SubSeq(d, start + 1, r[2])
              IN  lex_from(d, r[1], Append(toks, TokenData("Other", 0, s)))

lex(d) == lex_from(d, 1, <<>>)

---------------------------------------------------------------------------
(* parser.rs: Expr *)

Node(tag, num, val, body, str) ==
    [tag |-> tag, num |-> num, val |-> val, body |-> body, str |-> str]

Block(exprs) == Node("Block", 0, 0, exprs, <<>>)
Increment(num) == Node("Increment", num, 0, <<>>, <<>>)
Decrement(num) == Node("Decrement", num, 0, <<>>, <<>>)
PrintChar == Node("PrintChar", 0, 0, <<>>, <<>>)
ReadChar == Node("ReadChar", 0, 0, <<>>, <<>>)
ShiftLeft(num) == Node("ShiftLeft", num, 0, <<>>, <<>>)
ShiftRight(num) == Node("ShiftRight", num, 0, <<>>, <<>>)
Loop(e) == Node("Loop", 0, 0, <<e>>, <<>>)
Assign(index, value) == Node("Assign", index, value, <<>>, <<>>)
AssignCurrent(value) == Node("AssignCurrent", 0, value, <<>>, <<>>)
PrintString(value) == Node("PrintString", 0, 0, <<>>, value)
SetCellPointer(value) == Node("SetCellPointer", value, 0, <<>>, <<>>)
ReadCharForget == Node("ReadCharForget", 0, 0, <<>>, <<>>)

RECURSIVE contains_read(_)
contains_read(e) ==
    CASE e.tag = "ReadChar" -> TRUE
      [] e.tag = "ReadCharForget" -> TRUE
      [] e.tag = "Block" -> \E i \in 1..Len(e.body) : contains_read(e.body[i])
      [] e.tag = "Loop" -> contains_read(e.body[1])
      [] OTHER -> FALSE

is_block(e) == e.tag = "Block"

RECURSIVE uses_memory(_)
uses_memory(e) ==
    CASE e.tag = "Block" -> \E i \in 1..Len(e.body) : uses_memory(e.body[i])
      [] e.tag = "Loop" -> uses_memory(e.body[1])
      [] e.tag = "PrintString" -> FALSE
      [] e.tag = "ReadCharForget" -> FALSE
      [] OTHER -> TRUE

(* parser.rs: Parser *)

\* A parser for which an EndLoop always ends the block being parsed, also at
\* nesting depth 0.
RECURSIVE parse_from_stop_at_end_loop(_, _, _)
parse_from_stop_at_end_loop(toks, p, exprs) ==
    IF ~(p.index < Len(toks)) THEN [p |-> p, expr |-> Block(exprs)]
    ELSE LET t == toks[p.index + 1]
             adv == [p EXCEPT !.index = @ + 1]
         IN  CASE t.kind = "Increment" -> parse_from_stop_at_end_loop(toks, adv, Append(exprs, Increment(t.num)))
               [] t.kind = "Decrement" -> parse_from_stop_at_end_loop(toks, adv, Append(exprs, Decrement(t.num)))
               [] t.kind = "ShiftLeft" -> parse_from_stop_at_end_loop(toks, adv, Append(exprs, ShiftLeft(t.num)))
               [] t.kind = "ShiftRight" -> parse_from_stop_at_end_loop(toks, adv, Append(exprs, ShiftRight(t.num)))
               [] t.kind = "Print" -> parse_from_stop_at_end_loop(toks, adv, Append(exprs, PrintChar))
               [] t.kind = "Read" -> parse_from_stop_at_end_loop(toks, adv, Append(exprs, ReadChar))
               [] t.kind = "StartLoop" ->
                    LET r == parse_from_stop_at_end_loop(toks, [adv EXCEPT !.loop_count = @ + 1], <<>>)
                    IN  parse_from_stop_at_end_loop(toks, r.p, Append(exprs, Loop(r.expr)))
               [] t.kind = "EndLoop" ->
                    IF adv.loop_count > 0
                    THEN [p |-> [adv EXCEPT !.loop_count = @ - 1], expr |-> Block(exprs)]
                    ELSE [p |-> adv, expr |-> Block(exprs)]
               [] t.kind = "Other" -> parse_from_stop_at_end_loop(toks, adv, exprs)


\* A parser that discards a loop the end of the tokens leaves open.
RECURSIVE parse_from_drop_open(_, _, _)
parse_from_drop_open(toks, p, exprs) ==
    IF ~(p.index < Len(toks)) THEN [p |-> p, expr |-> Block(exprs)]
    ELSE LET t == toks[p.index + 1]
             adv == [p EXCEPT !.index = @ + 1]
         IN  CASE t.kind = "Increment" -> parse_from_drop_open(toks, adv, Append(exprs, Increment(t.num)))
               [] t.kind = "Decrement" -> parse_from_drop_open(toks, adv, Append(exprs, Decrement(t.num)))
               [] t.kind = "ShiftLeft" -> parse_from_drop_open(toks, adv, Append(exprs, ShiftLeft(t.num)))
               [] t.kind = "ShiftRight" -> parse_from_drop_open(toks, adv, Append(exprs, ShiftRight(t.num)))
               [] t.kind = "Print" -> parse_from_drop_open(toks, adv, Append(exprs, PrintChar))
               [] t.kind = "Read" -> parse_from_drop_open(toks, adv, Append(exprs, ReadChar))
               [] t.kind = "StartLoop" ->
                    LET r == parse_from_drop_open(toks, [adv EXCEPT !.loop_count = @ + 1], <<>>)
                    IN  IF r.p.loop_count = adv.loop_count
                        THEN parse_from_drop_open(toks, r.p, Append(exprs, Loop(r.expr)))
                        ELSE parse_from_drop_open(toks, r.p, exprs)
               [] t.kind = "EndLoop" ->
                    IF adv.loop_count > 0
                    THEN [p |-> [adv EXCEPT !.loop_count = @ - 1], expr |-> Block(exprs)]
                    ELSE parse_from_drop_open(toks, adv, exprs)
               [] t.kind = "Other" -> parse_from_drop_open(toks, adv, exprs)


\* Parser::parse: p is the parser state [index, loop_count] (index 0-based),
\* exprs the children collected so far by this invocation.  Returns the
\* parser state when the invocation returns and the Block it returns.
RECURSIVE parse_from(_, _, _)
parse_from(toks, p, exprs) ==
    IF ~(p.index < Len(toks)) THEN [p |-> p, expr |-> Block(exprs)]
    ELSE LET t == toks[p.index + 1]
             adv == [p EXCEPT !.index = @ + 1]
         IN  CASE t.kind = "Increment" -> parse_from(toks, adv, Append(exprs, Increment(t.num)))
               [] t.kind = "Decrement" -> parse_from(toks, adv, Append(exprs, Decrement(t.num)))
               [] t.kind = "ShiftLeft" -> parse_from(toks, adv, Append(exprs, ShiftLeft(t.num)))
               [] t.kind = "ShiftRight" -> parse_from(toks, adv, Append(exprs, ShiftRight(t.num)))
               [] t.kind = "Print" -> parse_from(toks, adv, Append(exprs, PrintChar))
               [] t.kind = "Read" -> parse_from(toks, adv, Append(exprs, ReadChar))
               [] t.kind = "StartLoop" ->
                    LET r == parse_from(toks, [adv EXCEPT !.loop_count = @ + 1], <<>>)
                    IN  parse_from(toks, r.p, Append(exprs, Loop(r.expr)))
               [] t.kind = "EndLoop" ->
                    IF adv.loop_count > 0
                    THEN [p |-> [adv EXCEPT !.loop_count = @ - 1], expr |-> Block(exprs)]
                    ELSE parse_from(toks, adv, exprs)
               [] t.kind = "Other" -> parse_from(toks, adv, exprs)

parse(toks) == parse_from(toks, [index |-> 0, loop_count |-> 0], <<>>).expr

---------------------------------------------------------------------------
(* Rust String and char *)

\* char::from(u8): the code point equal to the byte.
char_from(c) == c

\* The UTF-8 encoding of one code point below 0x800.
utf8(ch) == IF ch < 128 THEN <<ch>> ELSE <<192 + (ch \div 64), 128 + (ch % 64)>>

\* String::bytes(): the encodings of the characters lo..hi, concatenated.
RECURSIVE bytes_range(_, _, _)
bytes_range(s, lo, hi) ==
    IF lo > hi THEN <<>>
    ELSE IF lo = hi THEN utf8(s[lo])
    ELSE LET mid == (lo + hi) \div 2
         IN  bytes_range(s, lo, mid) \o bytes_range(s, mid + 1, hi)

bytes(s) == bytes_range(s, 1, Len(s))

---------------------------------------------------------------------------
(* interpreter.rs: Handler *)

\* SpecExecHandler::new (optimize.rs): out is a Vec<String>.
SpecExecHandler == [kind |-> "spec", out |-> <<>>, input |-> <<>>, pos |-> 0, reads |-> 0]

\* A handler bound to a finite input stream; its output is a byte stream.
\* pos: bytes taken from the stream; reads: calls of read_char.
StreamHandler(I) == [kind |-> "stream", out |-> <<>>, input |-> I, pos |-> 0, reads |-> 0]

\* SpecExecHandler::print
print(h, c) ==
    LET out1 == IF h.out = <<>> THEN <<<<>>>> ELSE h.out
    IN  [h EXCEPT !.out = [out1 EXCEPT ![Len(out1)] = Append(@, c)]]

write_char(h, c) ==
    IF h.kind = "spec" THEN print(h, char_from(c))
    ELSE [h EXCEPT !.out = Append(@, c)]

\* Handler::read_char, the trait's default body (SpecExecHandler keeps it).
default_read_char(h) == [h |-> [h EXCEPT !.reads = @ + 1], c |-> 0]

\* read_char of a handler bound to an input stream: next byte, 0 when exhausted.
stream_read_char(h) ==
    IF h.pos < Len(h.input)
    THEN [h |-> [h EXCEPT !.pos = @ + 1, !.reads = @ + 1], c |-> h.input[h.pos + 1]]
    ELSE [h |-> [h EXCEPT !.reads = @ + 1], c |-> 0]

read_char(h) == IF h.kind = "spec" THEN default_read_char(h) ELSE stream_read_char(h)

\* Handler::mem_read, the trait's default body (no handler overrides it).
mem_read(h, index) == h

(* interpreter.rs: Interpreter *)

\* st: "ok" while running / returned Ok; "panic" when the process panicked;
\* "hang" when a loop came back to a machine state it was in before (it never
\* returns); "limit" when a cell beyond MaxTape was addressed (outside the
\* model's bounds).
\* events records, in order, every call of handler.mem_read with its index
\* and every observation of a cell for a Loop condition or a PrintChar.
Interpreter(handler) ==
    [cells |-> <<>>, current_cell_index |-> 0, handler |-> handler, st |-> "ok",
     events |-> <<>>]

\* Vec::resize(n, 0)
resize(cells, n) ==
    IF n <= Len(cells) THEN SubSeq(cells, 1, n)
    ELSE cells \o [k \in 1..(n - Len(cells)) |-> 0]

\* A cell() that resizes the tape to index + 1 on every access.
cell_always_resize(vm, index) ==
    IF index < 0 THEN [vm EXCEPT !.st = "panic"]
    ELSE IF index >= MaxTape THEN [vm EXCEPT !.st = "limit"]
    ELSE [vm EXCEPT !.cells = resize(@, index + 1)]

\* Interpreter::cell: the interpreter once cell(index) has returned its
\* reference.  A negative index stands for a usize wrapped below zero
\* (2^64 + index, release build): index + 1 is 0 or beyond isize::MAX, and
\* resize / get_mut().unwrap() panics.
cell(vm, index) ==
    IF index < 0 THEN [vm EXCEPT !.st = "panic"]
    ELSE IF index >= MaxTape THEN [vm EXCEPT !.st = "limit"]
    ELSE IF index >= Len(vm.cells)
    THEN [vm EXCEPT !.cells = resize(@, index + 1)]
    ELSE vm

\* *self.cell(index) = v
set_cell(vm, index, v) ==
    LET m == cell(vm, index)
    IN  IF m.st # "ok" THEN m ELSE [m EXCEPT !.cells[index + 1] = v]

\* The value self.current_cell() returns, in a state cell() has grown.
cur(vm) == vm.cells[vm.current_cell_index + 1]

\* An addition whose count saturates at u8::MAX instead of being cut to 8 bits.
overflowing_add_saturating_count(v, num) ==
    (v + (IF num > ByteMod - 1 THEN ByteMod - 1 ELSE num)) % ByteMod

\* u8::overflowing_add(num as u8).0 and overflowing_sub(num as u8).0
overflowing_add(v, num) == (v + (num % ByteMod)) % ByteMod
overflowing_sub(v, num) == (v - (num % ByteMod)) % ByteMod

\* self.current_cell_index += num
shift_right(vm, num) == [vm EXCEPT !.current_cell_index = @ + num]

\* self.current_cell_index -= num: with overflow checks (debug) a subtraction
\* below zero panics, without them (release) the usize wraps.
shift_left(vm, num, b) ==
    IF b = "debug" /\ vm.current_cell_index < num
    THEN [vm EXCEPT !.st = "panic"]
    ELSE [vm EXCEPT !.current_cell_index = @ - num]

\* for b in value.bytes() { self.handler.write_char(b); }: write_char once
\* per byte, in order.  On a SpecExecHandler the first print pushes a segment
\* when there is none and every byte lands in the last segment.
write_bytes(h, bs) ==
    IF bs = <<>> THEN h
    ELSE IF h.kind = "spec"
    THEN LET out1 == IF h.out = <<>> THEN <<<<>>>> ELSE h.out
         IN  [h EXCEPT !.out = [out1 EXCEPT ![Len(out1)] =
                                    @ \o [k \in 1..Len(bs) |-> char_from(bs[k])]]]
    ELSE [h EXCEPT !.out = @ \o bs]

\* self.handler.mem_read(self.current_cell_index)
notify(vm) ==
    [vm EXCEPT !.handler = mem_read(@, vm.current_cell_index),
               !.events = Append(@, <<"mem_read", vm.current_cell_index>>)]

\* self.current_cell() read for a Loop condition or a PrintChar
observe(vm) ==
    cell([vm EXCEPT !.events = Append(@, <<"observe", vm.current_cell_index>>)],
         vm.current_cell_index)

\* The part of the machine state that decides what a loop does next.
loop_key(vm) == <<vm.cells, vm.current_cell_index, vm.handler.pos>>

RECURSIVE run(_, _, _), run_block(_, _, _, _), loop_iter(_, _, _, _)

\* for expr in exprs { self.run(expr)?; }
run_block(vm, exprs, i, b) ==
    IF i > Len(exprs) \/ vm.st # "ok" THEN vm
    ELSE run_block(run(vm, exprs[i], b), exprs, i + 1, b)

\* One evaluation of `while self.current_cell() != 0` and, when it holds, one
\* run of the body.  s = [vm, fin, saved, count, pow]: fin when the loop is
\* over; saved is the machine state the loop was in at its iteration number
\* pow / 2, kept to recognise a loop that comes back to a state it was in
\* (a deterministic machine that does so never leaves the loop).
loop_step(s, body, b) ==
    LET m == observe(s.vm)
    IN  IF m.st # "ok" THEN [s EXCEPT !.vm = m, !.fin = TRUE]
        ELSE IF cur(m) = 0 THEN [s EXCEPT !.vm = m, !.fin = TRUE]
        ELSE IF s.count > 0 /\ loop_key(m) = s.saved
        THEN [s EXCEPT !.vm = [m EXCEPT !.st = "hang"], !.fin = TRUE]
        ELSE LET m2 == run(m, body, b)
                 renew == s.count + 1 = s.pow
             IN  [vm |-> m2,
                  fin |-> m2.st # "ok",
                  saved |-> IF s.count = 0 \/ renew THEN loop_key(m) ELSE s.saved,
                  count |-> s.count + 1,
                  pow |-> IF renew THEN 2 * s.pow ELSE s.pow]

\* At most n iterations of the loop.
loop_iter(s, body, n, b) ==
    IF s.fin THEN s
    ELSE IF n = 1 THEN loop_step(s, body, b)
    ELSE loop_iter(loop_iter(s, body, n \div 2, b), body, n - (n \div 2), b)

\* Expr::Loop: while self.current_cell() != 0 { self.run(&expr)?; }
run_loop(vm, body, b) ==
    LET s == loop_iter([vm |-> vm, fin |-> FALSE, saved |-> <<>>, count |-> 0, pow |-> 1],
                       body, MaxIter, b)
    IN  IF s.fin THEN s.vm ELSE [s.vm EXCEPT !.st = "limit"]

\* Interpreter::run; b is the build.
run(vm, e, b) ==
    IF vm.st # "ok" THEN vm
    ELSE CASE e.tag = "Block" -> run_block(vm, e.body, 1, b)
           [] e.tag = "Increment" ->
                LET m == cell(vm, vm.current_cell_index)
                IN  IF m.st # "ok" THEN m
                    ELSE set_cell(m, m.current_cell_index, overflowing_add(cur(m), e.num))
           [] e.tag = "Decrement" ->
                LET m == cell(vm, vm.current_cell_index)
                IN  IF m.st # "ok" THEN m
                    ELSE set_cell(m, m.current_cell_index, overflowing_sub(cur(m), e.num))
           [] e.tag = "ShiftRight" -> shift_right(vm, e.num)
           [] e.tag = "ShiftLeft" -> shift_left(vm, e.num, b)
           [] e.tag = "Loop" -> run_loop(notify(vm), e.body[1], b)
           [] e.tag = "PrintChar" ->
                LET m == observe(notify(vm))
                IN  IF m.st # "ok" THEN m
                    ELSE [m EXCEPT !.handler = write_char(@, cur(m))]
           [] e.tag = "ReadChar" ->
                LET r == read_char(vm.handler)
                IN  set_cell([vm EXCEPT !.handler = r.h], vm.current_cell_index, r.c)
           [] e.tag = "Assign" -> set_cell(vm, e.num, e.val)
           [] e.tag = "AssignCurrent" -> set_cell(vm, vm.current_cell_index, e.val)
           [] e.tag = "PrintString" ->
                [vm EXCEPT !.handler = write_bytes(@, bytes(e.str))]
           [] e.tag = "SetCellPointer" -> [vm EXCEPT !.current_cell_index = e.num]
           [] e.tag = "ReadCharForget" -> [vm EXCEPT !.handler = read_char(@).h]

---------------------------------------------------------------------------
(* optimize.rs: ZeroLoopOptimizer *)

\* A zero-loop pass that takes a loop around any single Decrement, whatever
\* its count, for the idiom.
RECURSIVE ZeroLoopOptimizer_any_count(_)
ZeroLoopOptimizer_any_count(top_expr) ==
    CASE top_expr.tag = "Block" ->
           Block([i \in 1..Len(top_expr.body) |-> ZeroLoopOptimizer_any_count(top_expr.body[i])])
      [] top_expr.tag = "Loop" ->
           IF /\ top_expr.body[1].tag = "Block"
              /\ Len(top_expr.body[1].body) = 1
              /\ top_expr.body[1].body[1].tag = "Decrement"
           THEN AssignCurrent(0)
           ELSE top_expr
      [] OTHER -> top_expr

\* A zero-loop pass that leaves the idiom's last value but one in the cell.
RECURSIVE ZeroLoopOptimizer_one(_)
ZeroLoopOptimizer_one(top_expr) ==
    CASE top_expr.tag = "Block" ->
           Block([i \in 1..Len(top_expr.body) |-> ZeroLoopOptimizer_one(top_expr.body[i])])
      [] top_expr.tag = "Loop" ->
           IF top_expr.body[1].tag = "Block" /\ top_expr.body[1].body = <<Decrement(1)>>
           THEN AssignCurrent(1)
           ELSE top_expr
      [] OTHER -> top_expr

\* A zero-loop pass that also recurses into the body of a Loop that is not
\* the idiom.
RECURSIVE ZeroLoopOptimizer_into_loops(_)
ZeroLoopOptimizer_into_loops(top_expr) ==
    CASE top_expr.tag = "Block" ->
           Block([i \in 1..Len(top_expr.body) |-> ZeroLoopOptimizer_into_loops(top_expr.body[i])])
      [] top_expr.tag = "Loop" ->
           IF top_expr.body[1].tag = "Block" /\ top_expr.body[1].body = <<Decrement(1)>>
           THEN AssignCurrent(0)
           ELSE Loop(ZeroLoopOptimizer_into_loops(top_expr.body[1]))
      [] OTHER -> top_expr

\* A zero-loop pass that clears the cell by reading into it.
RECURSIVE ZeroLoopOptimizer_read(_)
ZeroLoopOptimizer_read(top_expr) ==
    CASE top_expr.tag = "Block" ->
           Block([i \in 1..Len(top_expr.body) |-> ZeroLoopOptimizer_read(top_expr.body[i])])
      [] top_expr.tag = "Loop" ->
           IF top_expr.body[1].tag = "Block" /\ top_expr.body[1].body = <<Decrement(1)>>
           THEN ReadChar
           ELSE top_expr
      [] OTHER -> top_expr

RECURSIVE ZeroLoopOptimizer(_)
ZeroLoopOptimizer(top_expr) ==
    CASE top_expr.tag = "Block" ->
           Block([i \in 1..Len(top_expr.body) |-> ZeroLoopOptimizer(top_expr.body[i])])
      [] top_expr.tag = "Loop" ->
           IF top_expr.body[1].tag = "Block" /\ top_expr.body[1].body = <<Decrement(1)>>
           THEN AssignCurrent(0)
           ELSE top_expr
      [] OTHER -> top_expr

(* optimize.rs: SpecExecOptimizer *)

\* vm.handler.out.push(String::new())
push_segment(vm) == [vm EXCEPT !.handler.out = Append(@, <<>>)]

\* What the prefix walk does with the child at index i (0-based): "plain"
\* (no read: run it), "push" (push a segment, then run it) or "split".
classify(exprs, i) ==
    IF ~contains_read(exprs[i + 1]) THEN "plain"
    ELSE IF i + 1 < Len(exprs) /\ exprs[i + 2].tag = "AssignCurrent" THEN "push"
    ELSE IF \A j \in (i + 2)..Len(exprs) : ~uses_memory(exprs[j]) THEN "push"
    ELSE "split"

\* The prefix walk: for (i, expr) in exprs.iter().enumerate().  read_pos = -1
\* stands for None.  The walk ends early when vm.run did not return Ok.
RECURSIVE spec_walk(_, _, _, _)
spec_walk(exprs, i, vm, b) ==
    IF i >= Len(exprs) THEN [vm |-> vm, read_pos |-> -1]
    ELSE LET c == classify(exprs, i)
         IN  IF c = "split" THEN [vm |-> vm, read_pos |-> i]
             ELSE LET vm1 == run(IF c = "push" THEN push_segment(vm) ELSE vm, exprs[i + 1], b)
                  IN  IF vm1.st # "ok" THEN [vm |-> vm1, read_pos |-> -1]
                      ELSE spec_walk(exprs, i + 1, vm1, b)

\* An emission that numbers the cells from 1.
emit_assigns_from_one(cells) == [i \in 1..Len(cells) |-> Assign(i, cells[i])]

\* for (i, cell) in vm.cells().iter().enumerate(): Assign { index: i, value }
emit_assigns(cells) == [i \in 1..Len(cells) |-> Assign(i - 1, cells[i])]

\* for value in out.iter().take(out.len() - 1): PrintString, ReadCharForget;
\* then PrintString of out.last().unwrap().  Only called with out non-empty.
RECURSIVE emit_segments(_, _)
emit_segments(out, k) ==
    IF k = Len(out) THEN <<PrintString(out[k])>>
    ELSE <<PrintString(out[k]), ReadCharForget>> \o emit_segments(out, k + 1)

\* The simulation of a pass that has not simulated anything.
NoSim == [vm |-> Interpreter(SpecExecHandler), read_pos |-> -1]

\* SpecExecOptimizer::optimize.  Returns [st, expr, sim]: st = "ok" when the
\* pass returned, with the IR it left; otherwise how it did not return.  sim
\* is the prefix walk's interpreter and read_pos when the walk ended.  With out empty, out.len() - 1 panics
\* in debug and out.last().unwrap() panics in release.
SpecExecOptimizer(top_expr, b) ==
    IF top_expr.tag # "Block" THEN [st |-> "ok", expr |-> top_expr, sim |-> NoSim]
    ELSE LET exprs == top_expr.body
             w == spec_walk(exprs, 0, Interpreter(SpecExecHandler), b)
             out == w.vm.handler.out
             new_exprs ==
                 IF w.read_pos >= 0
                 THEN emit_assigns(w.vm.cells)
                      \o emit_segments(out, 1)
                      \o <<SetCellPointer(w.vm.current_cell_index)>>
                      \o SubSeq(exprs, w.read_pos + 1, Len(exprs))
                 ELSE emit_segments(out, 1)
         IN  [st |-> CASE w.vm.st = "err" -> "ok"
                       [] w.vm.st # "ok" /\ w.vm.st # "err" -> w.vm.st
                       [] w.vm.st = "ok" /\ out = <<>> -> "panic"
                       [] OTHER -> "ok",
              expr |-> IF w.vm.st = "ok" /\ out # <<>> THEN Block(new_exprs) ELSE top_expr,
              sim |-> w]

(* optimize.rs: Optimizer *)

\* Optimizer::new
Optimizer_new(e) == IF ~is_block(e) THEN Block(<<e>>) ELSE e

---------------------------------------------------------------------------
(* lib.rs: PythonCodeGen *)

\* The text written is a sequence of pieces: a literal without a line break,
\* a number formatted by {} (its decimal digits), one character of a String,
\* a tab, or a line break.
Lit(str) == [lit |-> str, n |-> 0]
Num(n) == [lit |-> "{}", n |-> n]
NL == [lit |-> "\n", n |-> 0]
TAB == [lit |-> "\t", n |-> 0]
Chr(c) == IF c = 10 THEN NL ELSE [lit |-> "char", n |-> c]

\* format!("...{}...", value) for a String value: its characters
Chars(str) == [k \in 1..Len(str) |-> Chr(str[k])]

\* PythonCodeGen::new
PythonCodeGen_new == [output |-> <<>>, tab_index |-> 0, newline |-> TRUE]

\* What write pushes for the pieces lo..hi of s: every piece, and before a
\* piece at the start of a line tab_index tabs.
RECURSIVE written(_, _, _, _)
written(g, s, lo, hi) ==
    IF lo > hi THEN <<>>
    ELSE IF lo = hi
    THEN LET at_start == IF lo = 1 THEN g.newline ELSE s[lo - 1] = NL
         IN  (IF at_start THEN [k \in 1..g.tab_index |-> TAB] ELSE <<>>) \o <<s[lo]>>
    ELSE LET mid == (lo + hi) \div 2
         IN  written(g, s, lo, mid) \o written(g, s, mid + 1, hi)

\* PythonCodeGen::write
write(g, s) ==
    IF s = <<>> THEN g
    ELSE [g EXCEPT !.output = @ \o written(g, s, 1, Len(s)),
                   !.newline = (s[Len(s)] = NL)]

\* PythonCodeGen::write_preamble
write_preamble(g) ==
    LET g1 == write(g, <<Lit("cells = []"), NL>>)
        g2 == write(g1, <<Lit("for i in range(0, 10000):"), NL>>)
        g3 == write([g2 EXCEPT !.tab_index = @ + 1], <<Lit("cells.append(0)"), NL>>)
    IN  write([g3 EXCEPT !.tab_index = @ - 1], <<Lit("cell_index = 0"), NL>>)

RECURSIVE gen_expr(_, _), gen_block(_, _, _)

\* for expr in exprs { self.gen_expr(expr); }
gen_block(g, exprs, i) ==
    IF i > Len(exprs) THEN g
    ELSE gen_block(gen_expr(g, exprs[i]), exprs, i + 1)

\* PythonCodeGen::gen_expr
gen_expr(g, e) ==
    CASE e.tag = "Block" -> gen_block(g, e.body, 1)
      [] e.tag = "Increment" -> write(g, <<Lit("cells[cell_index] += "), Num(e.num), NL>>)
      [] e.tag = "Decrement" -> write(g, <<Lit("cells[cell_index] -= "), Num(e.num), NL>>)
      [] e.tag = "ShiftRight" -> write(g, <<Lit("cell_index += "), Num(e.num), NL>>)
      [] e.tag = "ShiftLeft" -> write(g, <<Lit("cell_index -= "), Num(e.num), NL>>)
      [] e.tag = "Loop" ->
           LET g1 == write(g, <<Lit("while cells[cell_index] != 0:"), NL>>)
               g2 == gen_expr([g1 EXCEPT !.tab_index = @ + 1], e.body[1])
           IN  [g2 EXCEPT !.tab_index = @ - 1]
      [] e.tag = "ReadChar" ->
           write(g, <<Lit("cells[cell_index] = ord((input() + ' ')[0])"), NL>>)
      [] e.tag = "PrintChar" ->
           write(g, <<Lit("print(chr(cells[cell_index]), end='')"), NL>>)
      [] e.tag = "Assign" ->
           write(g, <<Lit("cells["), Num(e.num), Lit("] = "), Num(e.val), NL>>)
      [] e.tag = "AssignCurrent" -> write(g, <<Lit("cells[cell_index] = "), Num(e.val), NL>>)
      [] e.tag = "SetCellPointer" -> write(g, <<Lit("cell_index = "), Num(e.num), NL>>)
      [] e.tag = "PrintString" ->
           write(g, <<Lit("print('")>> \o Chars(e.str) \o <<Lit("', end='')"), NL>>)
      [] e.tag = "ReadCharForget" -> write(g, <<Lit("input()"), NL>>)

\* PythonCodeGen::gen
gen(g, e) == gen_expr(IF uses_memory(e) THEN write_preamble(g) ELSE g, e)

---------------------------------------------------------------------------
(* The generated script, executed: the statements gen_expr and write_preamble
   emit, with the meaning the target language gives them. *)

\* for i in range(0, 10000): the length the preamble gives the list.
PyCells == 10000

\* chr() raises ValueError outside range(0x110000).
MaxCodePoint == 1114111

\* Characters that end or escape a '...' literal or break the line it is on.
Quote == 39
Backslash == 92
CarriageReturn == 13

\* The cell indices the model follows; a negative index counts from the end
\* of the list.
PyIdx == (0 - MaxTape)..(MaxTape - 1)

\* The runtime before the first statement.  ncells is len(cells).  st: "ok",
\* "syntax" (the script is rejected before it starts), "error" (an exception
\* ended it), "hang", "limit" (outside the model's bounds), "unmodelled" (a
\* string literal whose escapes the model does not follow).
PyStart(I) ==
    [cells |-> [i \in PyIdx |-> 0], ncells |-> 0, cell_index |-> 0,
     out |-> <<>>, input |-> I, pos |-> 0, st |-> "ok"]

\* The positions of the line breaks of the text.
Breaks(text) == {k \in 1..Len(text) : text[k] = NL}

\* The physical lines of the text: the pieces between two line breaks.
Lines(text) ==
    LET br == Breaks(text)
        ends == br \cup (IF text # <<>> /\ text[Len(text)] # NL THEN {Len(text) + 1} ELSE {})
        start(e) == IF \E k \in br : k < e
                    THEN (CHOOSE k \in br : k < e /\ \A m \in br : m < e => m <= k) + 1
                    ELSE 1
        nth(j) == CHOOSE e \in ends : Cardinality({x \in ends : x < e}) = j - 1
    IN  [j \in 1..Cardinality(ends) |-> SubSeq(text, start(nth(j)), nth(j) - 1)]

\* The number of tabs a line starts with.
Indent(line) ==
    IF \E k \in 1..Len(line) : line[k] # TAB
    THEN (CHOOSE k \in 1..Len(line) : line[k] # TAB /\ \A m \in 1..(k - 1) : line[m] = TAB) - 1
    ELSE Len(line)

NoArgStatements ==
    {"cells = []", "for i in range(0, 10000):", "cells.append(0)", "cell_index = 0",
     "while cells[cell_index] != 0:", "cells[cell_index] = ord((input() + ' ')[0])",
     "print(chr(cells[cell_index]), end='')", "input()"}

OneArgStatements ==
    {"cells[cell_index] += ", "cells[cell_index] -= ", "cell_index += ", "cell_index -= ",
     "cells[cell_index] = ", "cell_index = "}

\* The statement on a line: [indent, kind, num, val, str]; kind "bad" when the
\* line is none of the statements of the target language.
Stmt(line) ==
    LET d == Indent(line)
        t == SubSeq(line, d + 1, Len(line))
        n == Len(t)
        mk(kind, num, val, str) ==
            [indent |-> d, kind |-> kind, num |-> num, val |-> val, str |-> str]
    IN  IF n = 1 /\ t[1].lit \in NoArgStatements THEN mk(t[1].lit, 0, 0, <<>>)
        ELSE IF n = 2 /\ t[1].lit \in OneArgStatements /\ t[2].lit = "{}"
        THEN mk(t[1].lit, t[2].n, t[2].n, <<>>)
        ELSE IF /\ n = 4 /\ t[1].lit = "cells[" /\ t[2].lit = "{}"
                /\ t[3].lit = "] = " /\ t[4].lit = "{}"
        THEN mk("cells[{}] = {}", t[2].n, t[4].n, <<>>)
        ELSE IF /\ n >= 2 /\ t[1].lit = "print('" /\ t[n].lit = "', end='')"
                /\ \A k \in 2..(n - 1) : t[k].lit = "char" /\ t[k].n # Quote
        THEN mk("print('{}', end='')", 0, 0, [k \in 1..(n - 2) |-> t[k + 1].n])
        ELSE mk("bad", 0, 0, <<>>)

is_header(stmt) == stmt.kind \in {"while cells[cell_index] != 0:", "for i in range(0, 10000):"}

\* The script compiles: every line is a statement, a header is followed by a
\* line one level deeper, any other line by a line no deeper than itself.
SyntaxOk(L) ==
    /\ \A i \in 1..Len(L) : L[i].kind # "bad"
    /\ L # <<>> => L[1].indent = 0
    /\ \A i \in 1..Len(L) :
          IF is_header(L[i])
          THEN i < Len(L) /\ L[i + 1].indent = L[i].indent + 1
          ELSE i < Len(L) => L[i + 1].indent <= L[i].indent

\* The last line of the suite of the statement on line i.
SuiteEnd(L, i) ==
    CHOOSE j \in i..Len(L) :
        /\ \A m \in (i + 1)..j : L[m].indent > L[i].indent
        /\ j < Len(L) => L[j + 1].indent <= L[i].indent

\* cells[i]: IndexError outside -len(cells)..len(cells)-1.
py_index(s, i) ==
    IF i >= s.ncells \/ i < 0 - s.ncells THEN [s EXCEPT !.st = "error"]
    ELSE IF i \notin PyIdx THEN [s EXCEPT !.st = "limit"]
    ELSE s

\* cells[i] = v
py_store(s, i, v) ==
    LET s1 == py_index(s, i)
    IN  IF s1.st # "ok" THEN s1 ELSE [s1 EXCEPT !.cells[i] = v]

\* input(): the rest of the current line, without its line break; EOFError
\* when the input is exhausted.
py_input(s) ==
    IF s.pos >= Len(s.input) THEN [s |-> [s EXCEPT !.st = "error"], line |-> <<>>]
    ELSE LET brk == {k \in (s.pos + 1)..Len(s.input) : s.input[k] = 10}
             e == IF brk = {} THEN Len(s.input) + 1
                  ELSE CHOOSE k \in brk : \A m \in brk : k <= m
         IN  [s |-> [s EXCEPT !.pos = IF e > Len(s.input) THEN Len(s.input) ELSE e],
              line |-> SubSeq(s.input, s.pos + 1, e - 1)]

\* A statement that is not a header.
py_simple(s, stmt) ==
    CASE stmt.kind = "cells = []" -> [s EXCEPT !.ncells = 0]
      [] stmt.kind = "cells.append(0)" -> [s EXCEPT !.ncells = @ + 1]
      [] stmt.kind = "cell_index = 0" -> [s EXCEPT !.cell_index = 0]
      [] stmt.kind = "cells[cell_index] += " ->
           LET s1 == py_index(s, s.cell_index)
           IN  IF s1.st # "ok" THEN s1 ELSE [s1 EXCEPT !.cells[s.cell_index] = @ + stmt.num]
      [] stmt.kind = "cells[cell_index] -= " ->
           LET s1 == py_index(s, s.cell_index)
           IN  IF s1.st # "ok" THEN s1 ELSE [s1 EXCEPT !.cells[s.cell_index] = @ - stmt.num]
      [] stmt.kind = "cell_index += " -> [s EXCEPT !.cell_index = @ + stmt.num]
      [] stmt.kind = "cell_index -= " -> [s EXCEPT !.cell_index = @ - stmt.num]
      [] stmt.kind = "cells[cell_index] = ord((input() + ' ')[0])" ->
           LET r == py_input(s)
           IN  IF r.s.st # "ok" THEN r.s
               ELSE py_store(r.s, s.cell_index, IF r.line = <<>> THEN 32 ELSE r.line[1])
      [] stmt.kind = "print(chr(cells[cell_index]), end='')" ->
           LET s1 == py_index(s, s.cell_index)
           IN  IF s1.st # "ok" THEN s1
               ELSE IF s1.cells[s.cell_index] < 0 \/ s1.cells[s.cell_index] > MaxCodePoint
               THEN [s1 EXCEPT !.st = "error"]
               ELSE [s1 EXCEPT !.out = Append(@, s1.cells[s.cell_index])]
      [] stmt.kind = "cells[{}] = {}" -> py_store(s, stmt.num, stmt.val)
      [] stmt.kind = "cells[cell_index] = " -> py_store(s, s.cell_index, stmt.val)
      [] stmt.kind = "cell_index = " -> [s EXCEPT !.cell_index = stmt.num]
      [] stmt.kind = "print('{}', end='')" ->
           IF \E k \in 1..Len(stmt.str) : stmt.str[k] \in {0, Backslash, CarriageReturn}
           THEN [s EXCEPT !.st = "unmodelled"]
           ELSE [s EXCEPT !.out = @ \o stmt.str]
      [] stmt.kind = "input()" -> py_input(s).s

py_key(s) == <<s.cells, s.cell_index, s.pos>>

RECURSIVE py_suite(_, _, _, _), py_while_iter(_, _, _, _, _)

\* One test of the while condition and, when it holds, one run of the suite
\* lo..hi.  w = [s, fin, saved, count, pow], as for the interpreter's loop.
py_while_step(w, L, lo, hi) ==
    LET s1 == py_index(w.s, w.s.cell_index)
    IN  IF s1.st # "ok" THEN [w EXCEPT !.s = s1, !.fin = TRUE]
        ELSE IF s1.cells[s1.cell_index] = 0 THEN [w EXCEPT !.fin = TRUE]
        ELSE IF w.count > 0 /\ py_key(s1) = w.saved
        THEN [w EXCEPT !.s = [s1 EXCEPT !.st = "hang"], !.fin = TRUE]
        ELSE LET s2 == py_suite(s1, L, lo, hi)
                 renew == w.count + 1 = w.pow
             IN  [s |-> s2,
                  fin |-> s2.st # "ok",
                  saved |-> IF w.count = 0 \/ renew THEN py_key(s1) ELSE w.saved,
                  count |-> w.count + 1,
                  pow |-> IF renew THEN 2 * w.pow ELSE w.pow]

py_while_iter(w, L, lo, hi, n) ==
    IF w.fin THEN w
    ELSE IF n = 1 THEN py_while_step(w, L, lo, hi)
    ELSE py_while_iter(py_while_iter(w, L, lo, hi, n \div 2), L, lo, hi, n - (n \div 2))

py_while(s, L, lo, hi) ==
    LET w == py_while_iter([s |-> s, fin |-> FALSE, saved |-> <<>>, count |-> 0, pow |-> 1],
                           L, lo, hi, MaxIter)
    IN  IF w.fin THEN w.s ELSE [w.s EXCEPT !.st = "limit"]

\* for i in range(0, 10000): the suite, PyCells times.  The only suite the
\* generator writes under it is cells.append(0).
py_for(s, L, lo, hi) ==
    IF lo = hi /\ L[lo].kind = "cells.append(0)" THEN [s EXCEPT !.ncells = @ + PyCells]
    ELSE [s EXCEPT !.st = "unmodelled"]

\* The statements on the lines lo..hi, one level of indentation.
py_suite(s, L, lo, hi) ==
    IF lo > hi \/ s.st # "ok" THEN s
    ELSE LET e == SuiteEnd(L, lo)
             s1 == CASE L[lo].kind = "while cells[cell_index] != 0:" -> py_while(s, L, lo + 1, e)
                     [] L[lo].kind = "for i in range(0, 10000):" -> py_for(s, L, lo + 1, e)
                     [] OTHER -> py_simple(s, L[lo])
         IN  py_suite(s1, L, e + 1, hi)

\* python script.py < input
py_run(text, I) ==
    LET lines == Lines(text)
        L == [j \in 1..Len(lines) |-> Stmt(lines[j])]
    IN  IF ~SyntaxOk(L) THEN [PyStart(I) EXCEPT !.st = "syntax"]
        ELSE py_suite(PyStart(I), L, 1, Len(L))

---------------------------------------------------------------------------
(* v1.rs: the instruction-array interpreter *)

\* Instruction::from_char; "None" for a character that is no instruction.
from_char(c) ==
    CASE c = ">" -> "ShiftRight"
      [] c = "<" -> "ShiftLeft"
      [] c = "+" -> "Increment"
      [] c = "-" -> "Decrement"
      [] c = "[" -> "StartLoop"
      [] c = "]" -> "EndLoop"
      [] c = "," -> "Read"
      [] c = "." -> "Print"
      [] OTHER -> "None"

\* data.chars().filter_map(Instruction::from_char).collect::<Vec<_>>()
filter_map(d) ==
    LET kept == SelectSeq(d, LAMBDA c : from_char(c) # "None")
    IN  [k \in 1..Len(kept) |-> from_char(kept[k])]

is_end_loop(ins) == ins = "EndLoop"
is_start_loop(ins) == ins = "StartLoop"

\* v1 Interpreter::new with input_func bound to the input stream I and
\* output_func collecting the bytes in out; i and loop_stack are the locals of
\* exec.  st as for the IR interpreter.
v1_Interpreter(I) ==
    [mem |-> <<>>, ptr |-> 0, out |-> <<>>, input |-> I, pos |-> 0,
     i |-> 0, loop_stack |-> <<>>, st |-> "ok"]

\* Interpreter::get / get_mut: the interpreter once mem has been resized for
\* index; a negative index stands for a usize wrapped below zero.
v1_get(vm, index) ==
    IF index < 0 THEN [vm EXCEPT !.st = "panic"]
    ELSE IF index >= MaxTape THEN [vm EXCEPT !.st = "limit"]
    ELSE IF index >= Len(vm.mem) THEN [vm EXCEPT !.mem = resize(@, index + 1)]
    ELSE vm

\* (self.input_func)(): the next byte of the stream, 0 when it is exhausted.
input_func(vm) ==
    IF vm.pos < Len(vm.input)
    THEN [vm |-> [vm EXCEPT !.pos = @ + 1], c |-> vm.input[vm.pos + 1]]
    ELSE [vm |-> vm, c |-> 0]

\* instructions[i..].iter().position(|i| ...) with the closure's counter
\* found_start; k is the offset examined next; -1 stands for None.
RECURSIVE position(_, _, _, _)
position(ins, i, k, found_start) ==
    IF i + k >= Len(ins) THEN -1
    ELSE LET x == ins[i + k + 1]
         IN  IF found_start > 1 /\ is_end_loop(x)
             THEN position(ins, i, k + 1, found_start - 1)
             ELSE IF is_start_loop(x)
             THEN position(ins, i, k + 1, found_start + 1)
             ELSE IF found_start = 1 /\ is_end_loop(x) THEN k
             ELSE position(ins, i, k + 1, found_start)

\* One turn of `while i < instructions.len()`: the match and `i += 1`.
exec_one(vm, ins, b) ==
    LET x == ins[vm.i + 1]
        m == v1_get(vm, vm.ptr)
        v == m.mem[m.ptr + 1]
        panic == [vm EXCEPT !.st = "panic"]
        next(s) == [s EXCEPT !.i = @ + 1]
    IN  CASE x = "ShiftRight" -> next([vm EXCEPT !.ptr = @ + 1])
          [] x = "ShiftLeft" ->
               IF b = "debug" /\ vm.ptr < 1 THEN panic
               ELSE next([vm EXCEPT !.ptr = @ - 1])
          [] x = "Increment" ->
               IF m.st # "ok" THEN m
               ELSE next([m EXCEPT !.mem[m.ptr + 1] = overflowing_add(v, 1)])
          [] x = "Decrement" ->
               \* `-= 1` on a u8: panics on underflow with overflow checks
               IF m.st # "ok" THEN m
               ELSE IF v = 0 /\ b = "debug" THEN panic
               ELSE next([m EXCEPT !.mem[m.ptr + 1] = (v - 1) % ByteMod])
          [] x = "StartLoop" ->
               IF m.st # "ok" THEN m
               ELSE IF v = 0
               THEN LET p == position(ins, m.i, 0, 0)
                    IN  IF p < 0 THEN panic ELSE next([m EXCEPT !.i = @ + p])
               ELSE next([m EXCEPT !.loop_stack = Append(@, m.i)])
          [] x = "EndLoop" ->
               IF m.st # "ok" THEN m
               ELSE IF m.loop_stack = <<>> THEN panic
               ELSE IF v # 0 THEN next([m EXCEPT !.i = m.loop_stack[Len(m.loop_stack)]])
               ELSE next([m EXCEPT !.loop_stack = SubSeq(@, 1, Len(@) - 1)])
          [] x = "Read" ->
               IF m.st # "ok" THEN m
               ELSE LET r == input_func(m)
                    IN  next([r.vm EXCEPT !.mem[m.ptr + 1] = r.c])
          [] x = "Print" ->
               IF m.st # "ok" THEN m
               ELSE next([m EXCEPT !.out = Append(@, v)])

\* The part of the machine state that decides what exec does next.
exec_key(vm) == <<vm.mem, vm.ptr, vm.pos, vm.i, vm.loop_stack>>

\* One evaluation of `i < instructions.len()` and, when it holds, one turn.
\* s = [vm, fin, saved, count, pow] as for loop_step.
exec_step(s, ins, b) ==
    IF ~(s.vm.i < Len(ins)) THEN [s EXCEPT !.fin = TRUE]
    ELSE IF s.count > 0 /\ exec_key(s.vm) = s.saved
    THEN [s EXCEPT !.vm = [s.vm EXCEPT !.st = "hang"], !.fin = TRUE]
    ELSE LET m2 == exec_one(s.vm, ins, b)
             renew == s.count + 1 = s.pow
         IN  [vm |-> m2,
              fin |-> m2.st # "ok",
              saved |-> IF s.count = 0 \/ renew THEN exec_key(s.vm) ELSE s.saved,
              count |-> s.count + 1,
              pow |-> IF renew THEN 2 * s.pow ELSE s.pow]

\* At most n turns of the while loop.
RECURSIVE exec_iter(_, _, _, _)
exec_iter(s, ins, n, b) ==
    IF s.fin THEN s
    ELSE IF n = 1 THEN exec_step(s, ins, b)
    ELSE exec_iter(exec_iter(s, ins, n \div 2, b), ins, n - (n \div 2), b)

\* v1 Interpreter::exec
exec(vm, ins, b) ==
    LET s == exec_iter([vm |-> vm, fin |-> FALSE, saved |-> <<>>, count |-> 0, pow |-> 1],
                       ins, MaxSteps, b)
    IN  IF s.fin THEN s.vm ELSE [s.vm EXCEPT !.st = "limit"]

---------------------------------------------------------------------------
(* The pipeline of the tests in lib.rs (test_output_optimized) *)

NoExpr == Block(<<>>)
NoVm == Interpreter(StreamHandler(<<>>))

UnitIdle ==
    /\ unit_vm = NoVm
    /\ unit_expr = NoExpr
    /\ unit_res = NoVm
    /\ unit_rew = NoVm

PipeIdle ==
    /\ tokens = <<>>
    /\ parsed = NoExpr
    /\ expr = NoExpr
    /\ old_expr = NoExpr
    /\ before = NoExpr
    /\ sim = NoSim
    /\ cycle = 0
    /\ input = <<>>
    /\ vm_parsed = NoVm
    /\ vm_opt = NoVm

V1Idle ==
    /\ instructions = <<>>
    /\ v1 = v1_Interpreter(<<>>)

GenIdle ==
    /\ gen_ir = NoExpr
    /\ codegen = PythonCodeGen_new
    /\ vm_gen = NoVm
    /\ py = PyStart(<<>>)

Init ==
    /\ build \in {"debug", "release"}
    /\ data \in Sources \cup Corpus
    /\ phase = "source"
    /\ PipeIdle
    /\ UnitIdle
    /\ GenIdle
    /\ V1Idle

\* l.lex().unwrap()
Lex ==
    /\ phase = "source"
    /\ tokens' = lex(data)
    /\ phase' = "lexed"
    /\ UNCHANGED <<srcvars, v1vars, parsed, optvars, runvars, unitvars, genvars>>

\* p.parse().unwrap()
Parse ==
    /\ phase = "lexed"
    /\ parsed' = parse(tokens)
    /\ phase' = "parsed"
    /\ UNCHANGED <<srcvars, v1vars, tokens, optvars, runvars, unitvars, genvars>>

\* An optimizer that never leaves the cycle loop early.
cycle_breaks_never(e, old) == FALSE

\* if self.expr == old_expr { break }
cycle_breaks(e, old) == e = old

\* Optimizer::new(exprs), add_pass twice, and the entry of Optimizer::optimize
OptimizeStart ==
    /\ phase = "parsed"
    /\ expr' = Optimizer_new(parsed)
    /\ old_expr' = Optimizer_new(parsed)
    /\ before' = Optimizer_new(parsed)
    /\ cycle' = 0
    /\ phase' = "zero_loop"
    /\ UNCHANGED <<srcvars, v1vars, tokens, parsed, sim, runvars, unitvars, genvars>>

\* passes[0].optimize(&mut self.expr)
ZeroLoopPass ==
    /\ phase = "zero_loop"
    /\ before' = expr
    /\ expr' = ZeroLoopOptimizer(expr)
    /\ phase' = "spec_exec"
    /\ UNCHANGED <<srcvars, v1vars, tokens, parsed, old_expr, cycle, sim, runvars, unitvars, genvars>>

\* passes[1].optimize(&mut self.expr): the pass returns, panics, or never
\* returns.
SpecExecPass ==
    /\ phase = "spec_exec"
    /\ LET r == SpecExecOptimizer(expr, build)
       IN  /\ before' = expr
           /\ expr' = r.expr
           /\ sim' = r.sim
           /\ phase' = CASE r.st = "ok" -> "cycle_end"
                         [] r.st = "panic" -> "opt_panicked"
                         [] r.st = "hang" -> "opt_hung"
                         [] r.st = "limit" -> "out_of_bounds"
    /\ UNCHANGED <<srcvars, v1vars, tokens, parsed, old_expr, cycle, runvars, unitvars, genvars>>

\* if self.expr == old_expr { break } else { old_expr = self.expr.clone() },
\* and the for loop's own end after `limit` cycles.
CycleEnd ==
    /\ phase = "cycle_end"
    /\ cycle' = cycle + 1
    /\ IF cycle_breaks(expr, old_expr) \/ cycle + 1 >= limit
       THEN phase' = "optimized"
       ELSE phase' = "zero_loop"
    /\ old_expr' = IF cycle_breaks(expr, old_expr) THEN old_expr ELSE expr
    /\ UNCHANGED <<srcvars, v1vars, tokens, parsed, expr, before, sim, runvars, unitvars, genvars>>

\* vm.run(&exprs) on the parsed IR, with a handler bound to input I
RunParsed ==
    /\ phase = "optimized"
    /\ \E I \in Inputs :
         /\ input' = I
         /\ vm_parsed' = run(Interpreter(StreamHandler(I)), parsed, build)
    /\ phase' = "ran_parsed"
    /\ UNCHANGED <<srcvars, v1vars, tokens, parsed, optvars, vm_opt, unitvars, genvars>>

\* vm.run(&exprs) on the optimized IR, same input
RunOptimized ==
    /\ phase = "ran_parsed"
    /\ vm_opt' = run(Interpreter(StreamHandler(input)), expr, build)
    /\ phase' = "done"
    /\ UNCHANGED <<srcvars, v1vars, tokens, parsed, optvars, input, vm_parsed, unitvars, genvars>>

\* codegen.gen(&exprs) on the IR Parser::parse returned
GenParsed ==
    /\ phase = "parsed"
    /\ gen_ir' = parsed
    /\ codegen' = gen(PythonCodeGen_new, parsed)
    /\ phase' = "generated"
    /\ UNCHANGED <<srcvars, v1vars, tokens, parsed, optvars, runvars, unitvars, vm_gen, py>>

\* codegen.gen(&exprs) on the optimized IR (test_output_optimized_py)
GenOptimized ==
    /\ phase = "optimized"
    /\ gen_ir' = expr
    /\ codegen' = gen(PythonCodeGen_new, expr)
    /\ phase' = "generated"
    /\ UNCHANGED <<srcvars, v1vars, tokens, parsed, optvars, runvars, unitvars, vm_gen, py>>

\* vm.run(&exprs) on the IR the transcript was generated from
RunGenerated ==
    /\ phase = "generated"
    /\ \E I \in Inputs :
         /\ input' = I
         /\ vm_gen' = run(Interpreter(StreamHandler(I)), gen_ir, build)
    /\ phase' = "ran_gen"
    /\ UNCHANGED <<srcvars, v1vars, tokens, parsed, optvars, vm_parsed, vm_opt, unitvars,
                   gen_ir, codegen, py>>

\* The transcript executed by the target runtime on the same input
RunPython ==
    /\ phase = "ran_gen"
    /\ py' = py_run(codegen.output, input)
    /\ phase' = "py_done"
    /\ UNCHANGED <<srcvars, v1vars, tokens, parsed, optvars, runvars, unitvars,
                   gen_ir, codegen, vm_gen>>

Next ==
    \/ Lex
    \/ Parse
    \/ OptimizeStart
    \/ ZeroLoopPass
    \/ SpecExecPass
    \/ CycleEnd
    \/ RunParsed
    \/ RunOptimized

Spec == Init /\ [][Next]_vars

\* The front end alone: the lexer, the parser and the first zero-loop pass.
NextFront ==
    \/ Lex
    \/ Parse
    \/ OptimizeStart
    \/ ZeroLoopPass

SpecFront == Init /\ [][NextFront]_vars

\* The code generator: the pipeline, and the transcript of the parsed or the
\* optimized IR run next to the interpreter.
NextGen ==
    \/ Lex
    \/ Parse
    \/ OptimizeStart
    \/ ZeroLoopPass
    \/ SpecExecPass
    \/ CycleEnd
    \/ GenParsed
    \/ GenOptimized
    \/ RunGenerated
    \/ RunPython

SpecGen == Init /\ [][NextGen]_vars

\* v1 test_output: the instructions collected from the source text
V1Collect ==
    /\ phase = "parsed"
    /\ instructions' = filter_map(data)
    /\ phase' = "v1_collected"
    /\ UNCHANGED <<srcvars, tokens, parsed, optvars, runvars, unitvars, genvars, v1>>

\* v1 test_output: interpreter.exec(&data), the interpreter bound to input I
V1Exec ==
    /\ phase = "v1_collected"
    /\ \E I \in Inputs :
         /\ input' = I
         /\ v1' = exec(v1_Interpreter(I), instructions, build)
    /\ phase' = "v1_ran"
    /\ UNCHANGED <<srcvars, tokens, parsed, optvars, vm_parsed, vm_opt, unitvars, genvars,
                   instructions>>

\* interpreter.rs test_output: vm.run(&exprs) on the parsed IR, same input
RunReference ==
    /\ phase = "v1_ran"
    /\ vm_parsed' = run(Interpreter(StreamHandler(input)), parsed, build)
    /\ phase' = "v1_done"
    /\ UNCHANGED <<srcvars, v1vars, tokens, parsed, optvars, input, vm_opt, unitvars, genvars>>

\* The two interpreters side by side on one source and one input.
NextV1 ==
    \/ Lex
    \/ Parse
    \/ V1Collect
    \/ V1Exec
    \/ RunReference

SpecV1 == Init /\ [][NextV1]_vars

---------------------------------------------------------------------------
(* Single IR nodes run on a given interpreter state *)

UnitCounts == (1..3) \cup (255..MaxCount)

UnitExprs ==
    {Increment(k) : k \in UnitCounts} \cup {Decrement(k) : k \in UnitCounts}
    \cup {Loop(Block(<<Decrement(1)>>)), AssignCurrent(0)}
    \cup {PrintChar, ReadChar, Assign(0, 5), Assign(3, 7), AssignCurrent(7),
          ShiftRight(1), ShiftLeft(1), SetCellPointer(4),
          PrintString(<<65>>), ReadCharForget, Block(<<PrintString(<<65>>), ReadCharForget>>),
          Loop(Block(<<>>)), Loop(Block(<<PrintString(<<65>>)>>)),
          Loop(Block(<<ReadCharForget>>))}

\* Tapes with every byte value in cell 0 or 1, and the empty tape.
UnitTapes ==
    {<<>>} \cup {<<v>> : v \in 0..(ByteMod - 1)}
    \cup {<<v, 9>> : v \in 0..(ByteMod - 1)} \cup {<<9, v>> : v \in 0..(ByteMod - 1)}

InitUnit ==
    /\ build \in {"debug", "release"}
    /\ data = <<>>
    /\ phase = "unit"
    /\ PipeIdle
    /\ unit_expr \in UnitExprs
    /\ \E c \in UnitTapes, p \in 0..MaxUnitPtr :
         unit_vm = [Interpreter(StreamHandler(<<65>>)) EXCEPT
                        !.cells = c, !.current_cell_index = p]
    /\ unit_res = NoVm
    /\ unit_rew = NoVm
    /\ GenIdle
    /\ V1Idle

\* vm.run(&unit_expr)
UnitRun ==
    /\ phase = "unit"
    /\ unit_res' = run(unit_vm, unit_expr, build)
    /\ phase' = "unit_ran"
    /\ UNCHANGED <<srcvars, v1vars, tokens, parsed, optvars, runvars, unit_vm, unit_expr, unit_rew, genvars>>

\* ZeroLoopOptimizer on the node, then vm.run of what it left, from the same
\* interpreter state.
UnitRunRewritten ==
    /\ phase = "unit_ran"
    /\ unit_rew' = run(unit_vm, ZeroLoopOptimizer(unit_expr), build)
    /\ phase' = "unit_done"
    /\ UNCHANGED <<srcvars, v1vars, tokens, parsed, optvars, runvars, unit_vm, unit_expr, unit_res, genvars>>

NextUnit ==
    \/ UnitRun
    \/ UnitRunRewritten

SpecUnit == InitUnit /\ [][NextUnit]_vars

---------------------------------------------------------------------------
(* Properties *)

Src(str) ==
    CASE str = "" -> <<>>
      [] str = "-." -> <<"-", ".">>
      [] str = ",[-]" -> <<",", "[", "-", "]">>
      [] str = "+[]" -> <<"+", "[", "]">>
      [] str = "<" -> <<"<">>
      [] str = "[x-]" -> <<"[", "x", "-", "]">>
      [] str = "[--]" -> <<"[", "-", "-", "]">>
      [] str = "++x+" -> <<"+", "+", "x", "+">>

\* The command characters of a source text, in order.
Cmds(d) == SelectSeq(d, is_bf_char)

HasSub(d, pat) ==
    \E i \in 0..(Len(d) - Len(pat)) : SubSeq(d, i + 1, i + Len(pat)) = pat

EndsWith(d, pat) ==
    Len(d) >= Len(pat) /\ SubSeq(d, Len(d) - Len(pat) + 1, Len(d)) = pat

ZeroLoopNode == Loop(Block(<<Decrement(1)>>))

\* C1: whenever the run of the parsed IR on an input completes, the run of
\* the optimized IR on the same input completes with the same output bytes
\* and has taken the same number of bytes from the input.
C1_OptimizedRunEquivalent ==
    (phase = "done" /\ vm_parsed.st = "ok") =>
        /\ vm_opt.st = "ok"
        /\ vm_opt.handler.out = vm_parsed.handler.out
        /\ vm_opt.handler.pos = vm_parsed.handler.pos

\* The number of ReadCharForget nodes among the first n children.
ForgetCount(exprs, n) == Cardinality({i \in 1..n : exprs[i].tag = "ReadCharForget"})

\* The number of children the speculative pass put before the ones it kept.
EmittedLen ==
    IF sim.read_pos >= 0
    THEN Len(expr.body) - (Len(before.body) - sim.read_pos)
    ELSE Len(expr.body)

\* C2: the speculative pass emits one ReadCharForget for every read_char the
\* simulation called; and when both runs complete, the optimized IR has
\* called read_char as often as the parsed IR and taken as many input bytes.
C2_ReadCountPreserved ==
    /\ phase = "cycle_end" =>
           ForgetCount(expr.body, EmittedLen) = sim.vm.handler.reads
    /\ (phase = "done" /\ vm_parsed.st = "ok" /\ vm_opt.st = "ok") =>
           /\ vm_opt.handler.reads = vm_parsed.handler.reads
           /\ vm_opt.handler.pos = vm_parsed.handler.pos

\* C3: when the prefix simulation of the speculative pass came to its end
\* without a fault, the pass returns and leaves a Block-rooted IR.
C3_SpecExecNeverFaults ==
    (phase \in {"cycle_end", "opt_panicked"} /\ sim.vm.st = "ok") =>
        (phase = "cycle_end" /\ is_block(expr))

\* C4: Optimizer::optimize never gets stuck in a pass, and never runs more
\* than `limit` cycles.
C4_OptimizeTerminates ==
    phase # "opt_hung" /\ cycle <= limit

\* C5: when an instruction of the prefix simulation faulted, the speculative
\* pass returns and the IR is the one the pass was given.
C5_FaultAbandonsRewrite ==
    (phase \in {"cycle_end", "opt_panicked"} /\ sim.vm.st = "panic") =>
        (phase = "cycle_end" /\ expr = before)

\* The value a read of cell `index` finds (a cell beyond the tape reads 0).
CellValue(vm, index) ==
    IF index < Len(vm.cells) THEN vm.cells[index + 1] ELSE 0

\* C7: from every interpreter state, Loop(Block[Decrement{1}]) returns Ok with
\* the current cell 0, and leaves the same tape, pointer, input position and
\* output as the AssignCurrent{0} the zero-loop pass puts in its place.
C7_ZeroLoopEquivalent ==
    (phase = "unit_done" /\ unit_expr = ZeroLoopNode) =>
        /\ unit_res.st = "ok"
        /\ CellValue(unit_res, unit_res.current_cell_index) = 0
        /\ unit_rew.st = "ok"
        /\ unit_rew.cells = unit_res.cells
        /\ unit_rew.current_cell_index = unit_res.current_cell_index
        /\ unit_rew.handler.pos = unit_res.handler.pos
        /\ unit_rew.handler.out = unit_res.handler.out

C7_Witness ==
    /\ phase = "unit_done"
    /\ unit_expr = ZeroLoopNode
    /\ unit_vm.cells = <<9, 200>>
    /\ unit_vm.current_cell_index = 1
    /\ unit_res.cells = <<9, 0>>
    /\ unit_rew.cells = <<9, 0>>

\* C8 as stated: the first zero-loop pass leaves the parsed IR unchanged
\* whenever the source text has no substring `[-]`.
C8_NoZeroLoopTextNoChange ==
    (phase = "spec_exec" /\ cycle = 0 /\ ~HasSub(data, <<"[", "-", "]">>)) =>
        expr = before

\* C8, amended: the first zero-loop pass leaves the parsed IR unchanged
\* whenever the command characters of the source (the text without its
\* non-command characters) neither contain `[-]` nor end with `[-`.
C8_NoZeroLoopCmdsNoChange ==
    (/\ phase = "spec_exec"
     /\ cycle = 0
     /\ ~HasSub(Cmds(data), <<"[", "-", "]">>)
     /\ ~EndsWith(Cmds(data), <<"[", "-">>)) =>
        expr = before

C8_Witness ==
    /\ phase = "spec_exec"
    /\ cycle = 0
    /\ data = Src("[--]")
    /\ before = Block(<<Loop(Block(<<Decrement(2)>>))>>)
    /\ expr = before

\* C9: Increment{k} leaves (v + k) mod 256 in the current cell and
\* Decrement{k} leaves (v - k) mod 256, v the value the cell had; the pointer
\* and every other cell are as before (cells the tape grew by are 0).
C9_IncDecWrap ==
    (phase \in {"unit_ran", "unit_done"} /\ unit_expr.tag \in {"Increment", "Decrement"}) =>
        LET p == unit_vm.current_cell_index
            v == CellValue(unit_vm, p)
            k == unit_expr.num
        IN  /\ unit_res.st = "ok"
            /\ unit_res.current_cell_index = p
            /\ Len(unit_res.cells) = IF p + 1 > Len(unit_vm.cells) THEN p + 1 ELSE Len(unit_vm.cells)
            /\ unit_res.cells[p + 1] =
                   IF unit_expr.tag = "Increment" THEN (v + k) % 256 ELSE (v - k) % 256
            /\ \A i \in 0..(Len(unit_res.cells) - 1) :
                   i # p => unit_res.cells[i + 1] = CellValue(unit_vm, i)

C9_Witness ==
    /\ phase = "unit_ran"
    /\ unit_expr = Increment(257)
    /\ unit_vm.cells = <<9, 255>>
    /\ unit_vm.current_cell_index = 1
    /\ unit_res.cells = <<9, 0>>

\* The positions of the source text where a token starts: the first
\* character, and every character that does not continue the run before it.
SameRun(a, b) ==
    \/ a = b /\ a \in {"+", "-", "<", ">"}
    \/ ~is_bf_char(a) /\ ~is_bf_char(b)

RunStarts(d) == {i \in 1..Len(d) : i = 1 \/ ~SameRun(d[i - 1], d[i])}

\* The end (inclusive) of the maximal run that starts at position i.
RunEnd(d, i) ==
    CHOOSE j \in i..Len(d) :
        /\ \A m \in (i + 1)..j : SameRun(d[m - 1], d[m])
        /\ j = Len(d) \/ ~SameRun(d[j], d[j + 1])

CountKinds == {"Increment", "Decrement", "ShiftLeft", "ShiftRight"}

\* Every token written out as the command characters it stands for.
TokenChar(t) ==
    CASE t.kind = "Increment" -> "+"
      [] t.kind = "Decrement" -> "-"
      [] t.kind = "ShiftLeft" -> "<"
      [] t.kind = "ShiftRight" -> ">"
      [] t.kind = "Print" -> "."
      [] t.kind = "Read" -> ","
      [] t.kind = "StartLoop" -> "["
      [] t.kind = "EndLoop" -> "]"
      [] OTHER -> "?"

\* C10: the k-th token stands for the k-th maximal run of the source; a run
\* of `+ - < >` gives one count-bearing token of that character with the
\* run's length (>= 1) as count, so no two neighbouring tokens are
\* count-bearing tokens of one kind.
C10_RunLengthTokens ==
    (phase # "source" /\ phase # "unit") =>
        /\ Len(tokens) = Cardinality(RunStarts(data))
        /\ \A i \in RunStarts(data) :
               LET k == Cardinality({j \in RunStarts(data) : j <= i})
                   t == tokens[k]
               IN  is_bf_char(data[i]) =>
                       /\ TokenChar(t) = data[i]
                       /\ t.kind \in CountKinds => (t.num = RunEnd(data, i) - i + 1 /\ t.num >= 1)
        /\ \A k \in 1..(Len(tokens) - 1) :
               ~(tokens[k].kind \in CountKinds /\ tokens[k + 1].kind = tokens[k].kind)

C10_Witness ==
    /\ phase = "lexed"
    /\ data = Src("++x+")
    /\ tokens[1] = TokenData("Increment", 2, <<>>)
    /\ tokens[3] = TokenData("Increment", 1, <<>>)

\* C6: whenever the interpreter runs an IR to completion on an input, the
\* transcript generated from that IR, executed on the same input, completes
\* and prints the same characters.
OutChars(vm) == [k \in 1..Len(vm.handler.out) |-> char_from(vm.handler.out[k])]

C6_TranscriptEquivalent ==
    (phase = "py_done" /\ vm_gen.st = "ok" /\ py.st \notin {"limit", "unmodelled"}) =>
        /\ py.st = "ok"
        /\ py.out = OutChars(vm_gen)

\* C11: the token that stands for a maximal run of non-command characters
\* is an Other token whose string is the whole run, also when the run ends
\* the source text.
C11_OtherTokenWholeRun ==
    (phase # "source" /\ phase # "unit") =>
        \A i \in RunStarts(data) :
            LET k == Cardinality({j \in RunStarts(data) : j <= i})
            IN  ~is_bf_char(data[i]) =>
                    /\ k <= Len(tokens)
                    /\ tokens[k].kind = "Other"
                    /\ tokens[k].str = SubSeq(data, i, RunEnd(data, i))

\* The nesting depth after the first k characters of a source text, and
\* whether a `]` met a `[` at every position: `[` opens a level, `]` closes one.
RECURSIVE SrcDepth(_, _)
SrcDepth(d, k) ==
    IF k = 0 THEN 0
    ELSE SrcDepth(d, k - 1) + (IF d[k] = "[" THEN 1 ELSE IF d[k] = "]" THEN -1 ELSE 0)

Balanced(d) ==
    /\ \A k \in 1..Len(d) : SrcDepth(d, k) >= 0
    /\ SrcDepth(d, Len(d)) = 0

\* The command string of an IR: Increment n as n `+`, a Loop as `[` body `]`.
RECURSIVE Flatten(_)
Flatten(e) ==
    LET rep(c, n) == [k \in 1..n |-> c]
        RECURSIVE cat(_, _)
        cat(exprs, i) == IF i > Len(exprs) THEN <<>> ELSE Flatten(exprs[i]) \o cat(exprs, i + 1)
    IN  CASE e.tag = "Block" -> cat(e.body, 1)
          [] e.tag = "Increment" -> rep("+", e.num)
          [] e.tag = "Decrement" -> rep("-", e.num)
          [] e.tag = "ShiftLeft" -> rep("<", e.num)
          [] e.tag = "ShiftRight" -> rep(">", e.num)
          [] e.tag = "PrintChar" -> <<".">>
          [] e.tag = "ReadChar" -> <<",">>
          [] e.tag = "Loop" -> <<"[">> \o Flatten(e.body[1]) \o <<"]">>
          [] OTHER -> <<"?">>

\* C12: a source of command characters only, with balanced brackets, is
\* given back by lexing, parsing and flattening the IR.
C12_ParseFlattenRoundTrip ==
    (/\ phase \notin {"source", "lexed", "unit"}
     /\ \A k \in 1..Len(data) : is_bf_char(data[k])
     /\ Balanced(data)) =>
        Flatten(parsed) = data

C12_Witness ==
    /\ phase = "parsed"
    /\ data = <<"+", "[", ">", "[", "-", "]", "<", "-", "]", ".">>
    /\ Flatten(parsed) = data

\* The nesting depth after the first k tokens: a StartLoop opens a level, an
\* EndLoop closes one when one is open.
RECURSIVE TokDepth(_, _)
TokDepth(toks, k) ==
    IF k = 0 THEN 0
    ELSE LET d == TokDepth(toks, k - 1)
         IN  IF toks[k].kind = "StartLoop" THEN d + 1
             ELSE IF toks[k].kind = "EndLoop" /\ d > 0 THEN d - 1
             ELSE d

\* The token sequence without its k-th token.
Remove(toks, k) == SubSeq(toks, 1, k - 1) \o SubSeq(toks, k + 1, Len(toks))

\* C13: for every EndLoop token at nesting depth 0, the IR parsed from the
\* tokens is the IR parsed from the tokens without it.
C13_EndLoopAtDepth0Ignored ==
    phase \notin {"source", "lexed", "unit"} =>
        \A k \in 1..Len(tokens) :
            (tokens[k].kind = "EndLoop" /\ TokDepth(tokens, k - 1) = 0) =>
                parsed = parse(Remove(tokens, k))

C13_Witness ==
    /\ phase = "parsed"
    /\ data = <<"+", "]", "+">>
    /\ parsed = Block(<<Increment(1), Increment(1)>>)

\* The number of nodes of an IR that are not Blocks.
RECURSIVE NodeCount(_)
NodeCount(e) ==
    LET RECURSIVE sum(_, _)
        sum(exprs, i) == IF i > Len(exprs) THEN 0 ELSE NodeCount(exprs[i]) + sum(exprs, i + 1)
    IN  CASE e.tag = "Block" -> sum(e.body, 1)
          [] e.tag = "Loop" -> 1 + NodeCount(e.body[1])
          [] OTHER -> 1

\* C14: the parser returns a Block for every token sequence.  For a
\* StartLoop at depth 0 that no EndLoop closes, the Block's children are the
\* children parsed from the tokens before it and then, last, one Loop; the
\* Loop's body is what the remaining tokens parse to inside a loop, and holds
\* a node for every remaining token that is neither Other nor EndLoop.
C14_UnmatchedStartLoop ==
    phase \notin {"source", "lexed", "unit"} =>
        /\ is_block(parsed)
        /\ \A k \in 1..Len(tokens) :
              (/\ tokens[k].kind = "StartLoop"
               /\ TokDepth(tokens, k - 1) = 0
               /\ \A m \in k..Len(tokens) : TokDepth(tokens, m) >= 1) =>
                  LET rest == SubSeq(tokens, k + 1, Len(tokens))
                      pre == parse(SubSeq(tokens, 1, k - 1)).body
                      body == parse_from(rest, [index |-> 0, loop_count |-> 1], <<>>).expr
                  IN  /\ parsed = Block(Append(pre, Loop(body)))
                      /\ NodeCount(body) =
                             Cardinality({m \in 1..Len(rest) : rest[m].kind \notin {"Other", "EndLoop"}})

C14_Witness ==
    /\ phase = "parsed"
    /\ data = <<"+", "[", "-", ".">>
    /\ parsed = Block(<<Increment(1), Loop(Block(<<Decrement(1), PrintChar>>))>>)

\* C15: every cycle starts with old_expr the IR it starts from and fewer
\* than `limit` cycles done; in a cycle the zero-loop pass runs first, on the
\* IR of the cycle's start, and the speculative pass next, on its result; the
\* cycle then ends, and when the IR at its end equals the IR at its start no
\* further cycle starts.
C15_PassOrderAndCycles ==
    /\ [](phase = "zero_loop" => (old_expr = expr /\ cycle < limit))
    /\ [](cycle <= limit)
    /\ [][phase = "zero_loop" =>
              (phase' = "spec_exec" /\ expr' = ZeroLoopOptimizer(expr) /\ cycle' = cycle)]_vars
    /\ [][phase = "spec_exec" =>
              (/\ phase' \in {"cycle_end", "opt_panicked", "opt_hung", "out_of_bounds"}
               /\ cycle' = cycle /\ old_expr' = old_expr)]_vars
    /\ [][phase = "cycle_end" =>
              (/\ cycle' = cycle + 1
               /\ expr' = expr
               /\ phase' = IF expr = old_expr \/ cycle + 1 = limit
                           THEN "optimized" ELSE "zero_loop")]_vars

C15_Witness ==
    /\ phase = "optimized"
    /\ data = <<"+", ".">>
    /\ cycle = 2
    /\ expr = old_expr
    /\ expr # Optimizer_new(parsed)

\* C16: in the run of an IR, every observation of a cell for a Loop
\* condition or a PrintChar comes directly after a call of handler.mem_read
\* with the index of that cell.
Announced(events) ==
    \A k \in 1..Len(events) :
        events[k][1] = "observe" =>
            (k > 1 /\ events[k - 1] = <<"mem_read", events[k][2]>>)

C16_MemReadBeforeEveryObservation ==
    phase \in {"ran_gen", "py_done"} => Announced(vm_gen.events)

\* The cell index a node reads or writes when run with the pointer at ptr;
\* -1 for the nodes that touch no cell.
Accessed(e, ptr) ==
    CASE e.tag \in {"Increment", "Decrement", "PrintChar", "ReadChar", "AssignCurrent", "Loop"} -> ptr
      [] e.tag = "Assign" -> e.num
      [] OTHER -> -1

PointerMoves == {"ShiftRight", "ShiftLeft", "SetCellPointer"}

\* C17: a node that reads or writes cell i leaves a tape of length >= i + 1;
\* the tape is never shorter after a node than before it; every cell other
\* than the accessed one keeps its value, a cell the tape did not have is 0;
\* a pointer move leaves the tape as it was.
C17_TapeGrowsOnDemand ==
    (phase \in {"unit_ran", "unit_done"} /\ unit_res.st = "ok" /\ unit_expr.tag # "Block") =>
        LET i == Accessed(unit_expr, unit_vm.current_cell_index)
            old == unit_vm.cells
            new == unit_res.cells
        IN  /\ Len(new) >= Len(old)
            /\ i >= 0 => Len(new) >= i + 1
            /\ i >= 0 /\ unit_expr.tag # "Loop" => Len(new) = IF i + 1 > Len(old) THEN i + 1 ELSE Len(old)
            /\ \A j \in 1..Len(new) :
                   j # i + 1 => new[j] = IF j <= Len(old) THEN old[j] ELSE 0
            /\ unit_expr.tag \in PointerMoves => new = old

C17_Witness ==
    /\ phase = "unit_ran"
    /\ unit_expr = Assign(3, 7)
    /\ unit_vm.cells = <<9>>
    /\ unit_res.cells = <<9, 0, 0, 7>>
    /\ unit_res.st = "ok"

\* C18: running a node for which uses_memory is false observes no cell,
\* leaves the tape as it was (no write, no growth) and leaves the pointer
\* where it was.
C18_NoMemoryUseNoTapeEffect ==
    (phase \in {"unit_ran", "unit_done"} /\ ~uses_memory(unit_expr)) =>
        /\ unit_res.cells = unit_vm.cells
        /\ unit_res.current_cell_index = unit_vm.current_cell_index
        /\ \A k \in 1..Len(unit_res.events) : unit_res.events[k][1] # "observe"

\* The number of Loops around each node of an IR that is not a Block, the
\* nodes taken in the order gen_expr visits them; d is the depth of e itself.
RECURSIVE Depths(_, _)
Depths(e, d) ==
    LET RECURSIVE cat(_, _)
        cat(exprs, i) == IF i > Len(exprs) THEN <<>> ELSE Depths(exprs[i], d) \o cat(exprs, i + 1)
    IN  CASE e.tag = "Block" -> cat(e.body, 1)
          [] e.tag = "Loop" -> <<d>> \o Depths(e.body[1], d + 1)
          [] OTHER -> <<d>>

\* The lines write_preamble writes before gen_expr starts.
PreambleLines(e) == IF uses_memory(e) THEN 4 ELSE 0

\* C19: after the preamble, the transcript has one line for every node of
\* the IR that is not a Block, in order, the line of a node starting with as
\* many tabs as Loops enclose the node; generation ends at depth 0, at the
\* start of a line.
C19_OneLinePerNode ==
    phase \in {"generated", "ran_gen", "py_done"} =>
        LET L == Lines(codegen.output)
            pre == PreambleLines(gen_ir)
            ds == Depths(gen_ir, 0)
        IN  /\ Len(L) = pre + Len(ds)
            /\ \A k \in 1..Len(ds) : Indent(L[pre + k]) = ds[k]
            /\ codegen.tab_index = 0
            /\ codegen.newline

\* C20: when the prefix walk of the speculative pass ends at a split point p
\* with the simulation intact, the pass returns, and the Block it leaves is:
\* an Assign for every cell of the simulated tape in index order, then for
\* every output segment but the last a PrintString and a ReadCharForget, then
\* the PrintString of the last segment, then SetCellPointer to the simulated
\* pointer, then the children the pass was given from p on; none of the
\* nodes before those children is a Loop, an Increment, a Decrement or a shift.
C20_SplitLayout ==
    (phase \in {"cycle_end", "opt_panicked"} /\ sim.vm.st = "ok" /\ sim.read_pos >= 0) =>
        /\ phase = "cycle_end"
        /\ LET p == sim.read_pos
               cells == sim.vm.cells
               out == sim.vm.handler.out
               n == Len(cells)
               m == Len(out)
               kept == Len(before.body) - p
               kids == expr.body
           IN  /\ Len(kids) = n + (2 * m - 1) + 1 + kept
               /\ \A i \in 1..n : kids[i] = Assign(i - 1, cells[i])
               /\ \A k \in 1..(m - 1) :
                      kids[n + 2 * k - 1] = PrintString(out[k]) /\ kids[n + 2 * k] = ReadCharForget
               /\ kids[n + 2 * m - 1] = PrintString(out[m])
               /\ kids[n + 2 * m] = SetCellPointer(sim.vm.current_cell_index)
               /\ \A j \in 1..kept : kids[n + 2 * m + j] = before.body[p + j]
               /\ \A i \in 1..(n + 2 * m) :
                      kids[i].tag \notin {"Loop", "Increment", "Decrement", "ShiftLeft", "ShiftRight"}

\* The children the prefix walk of the last speculative pass ran: all of
\* them, or the ones before the split point.
Walked == IF sim.read_pos >= 0 THEN sim.read_pos ELSE Len(before.body)

\* The characters of all output segments, in order.
RECURSIVE Concat(_, _)
Concat(out, k) == IF k > Len(out) THEN <<>> ELSE out[k] \o Concat(out, k + 1)

\* The run of the walked children on an interpreter bound to the input I.
RealPrefix(I) ==
    run_block(Interpreter(StreamHandler(I)), SubSeq(before.body, 1, Walked), 1, build)

\* C21: when the prefix walk ran a read-containing child (it pushed a segment
\* instead of splitting) and came to its end, then for every input the run of
\* the walked children on that input completes, has written the bytes the
\* simulation wrote and has called read_char as often; and when the walk
\* ended at a split point, it leaves the tape and the pointer of the
\* simulation to the children that are kept.
C21_SimulationIndependentOfInput ==
    (/\ phase \in {"cycle_end", "opt_panicked"}
     /\ sim.vm.st = "ok"
     /\ is_block(before)
     /\ \E i \in 0..(Walked - 1) : classify(before.body, i) = "push") =>
        \A I \in Inputs :
            LET real == RealPrefix(I)
            IN  /\ real.st = "ok"
                /\ OutChars(real) = Concat(sim.vm.handler.out, 1)
                /\ real.handler.reads = sim.vm.handler.reads
                /\ sim.read_pos >= 0 =>
                       /\ real.cells = sim.vm.cells
                       /\ real.current_cell_index = sim.vm.current_cell_index

\* C22: when the prefix walk came to its end, every read-containing child at
\* an index i the walk reached whose next sibling is not an AssignCurrent was
\* run only if no child from i on, the child at i included, uses memory; and
\* when one of them does, i is the split point.
C22_TailOnlyNeedsNoMemoryUse ==
    (phase \in {"cycle_end", "opt_panicked"} /\ sim.vm.st = "ok" /\ is_block(before)) =>
        LET exprs == before.body
        IN  \A i \in 0..(Len(exprs) - 1) :
                (/\ i <= Walked
                 /\ contains_read(exprs[i + 1])
                 /\ ~(i + 1 < Len(exprs) /\ exprs[i + 2].tag = "AssignCurrent")) =>
                    IF \A j \in (i + 1)..Len(exprs) : ~uses_memory(exprs[j])
                    THEN i < Walked
                    ELSE sim.read_pos = i

\* The PrintString nodes among the children the speculative pass emitted.
EmittedPrints ==
    SelectSeq(SubSeq(expr.body, 1, EmittedLen), LAMBDA e : e.tag = "PrintString")

\* C23: when the speculative pass has rewritten the Block, the PrintString
\* nodes it emitted are its output segments in order, and running the
\* PrintString of a segment writes one byte for every byte the simulation
\* wrote to the segment, with the same value, for every byte value 0..255.
C23_PrintStringWritesSegmentBytes ==
    (phase = "cycle_end" /\ sim.vm.st = "ok") =>
        LET out == sim.vm.handler.out
        IN  /\ Len(EmittedPrints) = Len(out)
            /\ \A k \in 1..Len(out) :
                   LET vm == run(Interpreter(StreamHandler(<<>>)), EmittedPrints[k], build)
                   IN  /\ EmittedPrints[k] = PrintString(out[k])
                       /\ vm.st = "ok"
                       /\ vm.handler.out = out[k]

\* The children the speculative pass emitted (before the ones it kept), run
\* on a fresh interpreter bound to the input I.
RunEmitted(I) ==
    run_block(Interpreter(StreamHandler(I)), SubSeq(expr.body, 1, EmittedLen), 1, build)

C25_OneCycleFixedPoint ==
    /\ (phase \in {"cycle_end", "opt_panicked", "opt_hung"} /\ cycle = 1) =>
           (phase = "cycle_end" /\ expr = old_expr)
    /\ phase = "optimized" => cycle <= 2

\* The nodes of an IR: the IR itself and the nodes of its children.
RECURSIVE Nodes(_)
Nodes(e) == {e} \cup UNION {Nodes(e.body[i]) : i \in 1..Len(e.body)}

\* The number of nodes of an IR with the given tag.
RECURSIVE TagCount(_, _)
TagCount(e, tag) ==
    LET RECURSIVE sum(_, _)
        sum(exprs, i) == IF i > Len(exprs) THEN 0 ELSE TagCount(exprs[i], tag) + sum(exprs, i + 1)
    IN  (IF e.tag = tag THEN 1 ELSE 0) + sum(e.body, 1)

\* C26: the IR a pass leaves has no more Loop nodes and no more ReadChar
\* nodes than the IR the pass was given, and every Loop or ReadChar node of
\* it is a node of the IR the pass was given.
C26_NoLoopOrReadIntroduced ==
    phase \in {"spec_exec", "cycle_end"} =>
        /\ TagCount(expr, "Loop") <= TagCount(before, "Loop")
        /\ TagCount(expr, "ReadChar") <= TagCount(before, "ReadChar")
        /\ \A n \in Nodes(expr) : n.tag \in {"Loop", "ReadChar"} => n \in Nodes(before)

C26_Witness ==
    /\ phase = "cycle_end"
    /\ cycle = 0
    /\ data = <<".", ",", "[", ".", "]">>
    /\ sim.read_pos = 1
    /\ expr # before
    /\ TagCount(before, "Loop") = 1
    /\ TagCount(expr, "Loop") = 1
    /\ TagCount(expr, "ReadChar") = 1
    /\ Loop(Block(<<PrintChar>>)) \in Nodes(expr)

\* C27 as stated: the first zero-loop pass rewrites every Loop(Block[Decrement{1}])
\* that is a child of a Block to AssignCurrent{0}, also in the body Block of
\* another Loop, and leaves every other node as it was.
C27_EveryZeroLoopRewritten ==
    (phase = "spec_exec" /\ cycle = 0) =>
        /\ expr = ZeroLoopOptimizer_into_loops(before)
        /\ ZeroLoopNode \notin Nodes(expr)

\* C27, amended: the first zero-loop pass rewrites the children of the root
\* Block that are Loop(Block[Decrement{1}]) to AssignCurrent{0} and leaves every
\* other child of the root as it was, the body of a Loop included: a
\* Loop(Block[Decrement{1}]) inside the body of another Loop stays.
C27_TopLevelZeroLoopsRewritten ==
    (phase = "spec_exec" /\ cycle = 0) =>
        /\ is_block(expr)
        /\ Len(expr.body) = Len(before.body)
        /\ \A i \in 1..Len(before.body) :
               expr.body[i] = IF before.body[i] = ZeroLoopNode
                              THEN AssignCurrent(0)
                              ELSE before.body[i]

C27_Witness ==
    /\ phase = "spec_exec"
    /\ cycle = 0
    /\ data = <<"[", "-", "]", "[", "[", "-", "]", "]">>
    /\ before = Block(<<ZeroLoopNode, Loop(Block(<<ZeroLoopNode>>))>>)
    /\ expr = Block(<<AssignCurrent(0), Loop(Block(<<ZeroLoopNode>>))>>)

\* C28: for a source with balanced brackets and an input, the v1 interpreter
\* and the IR pipeline end the same way (both return, or neither does), and
\* when they return they have written the same bytes and leave the same tape
\* and the same pointer.
C28_V1MatchesPipeline ==
    (/\ phase = "v1_done"
     /\ Balanced(data)
     /\ v1.st # "limit"
     /\ vm_parsed.st # "limit") =>
        /\ v1.st = vm_parsed.st
        /\ v1.st = "ok" =>
               /\ v1.out = vm_parsed.handler.out
               /\ v1.mem = vm_parsed.cells
               /\ v1.ptr = vm_parsed.current_cell_index

=============================================================================
